---- MODULE Spec2Model ----
(***************************************************************************)
(* GithubReposScrapper (src/3/main.py, and its copy src/2/main.py):        *)
(* get_repositories with its RateLimiter, its asyncio.Semaphore gate, the  *)
(* process_repo units run under asyncio.gather, and the per-author commit  *)
(* aggregation.                                                            *)
(*                                                                         *)
(* Spec      the run of get_repositories as the source has it: the body of *)
(*           _get_repository_commits is "...", so the call returns None.   *)
(* SpecFetch the same run with _get_repository_commits going through       *)
(*           _make_request as the specification describes the commits      *)
(*           fetch (a list of commit records, or {} on any failure).       *)
(***************************************************************************)
EXTENDS Integers, Sequences, FiniteSets, TLC

\* ---------------------------------------------------------------- bounds
MaxRepos == 3
MaxMcr == 2
MaxCommits == 3
MaxRate == 2
MaxTasks == 2
MaxWaits == 3
MaxWriteRepos == 3
MaxAuthors == 2
MaxBatch == 2

\* ------------------------------------------------------ program constants
DefaultMcr == 5
DefaultRps == 1
DefaultBatchSize == 100

\* ------------------------------------------------------------ input data
\* The value of the GITHUB_MCR environment variable: unset, a text int()
\* rejects, or the text of an integer.
McrEnvValues ==
    {[kind |-> "unset", val |-> 0], [kind |-> "text", val |-> 0]}
        \cup {[kind |-> "int", val |-> v] : v \in (-1)..MaxMcr}

\* mcr = int(os.getenv("GITHUB_MCR", "5")), 5 on ValueError.
ParseMcr(env) ==
    IF env.kind = "int" THEN env.val ELSE DefaultMcr

\* The value of the GITHUB_RPS environment variable: unset, a text float()
\* rejects, or the text of a number (whole numbers stand for the floats).
RpsEnvValues ==
    {[kind |-> "unset", val |-> 0], [kind |-> "text", val |-> 0]}
        \cup {[kind |-> "int", val |-> v] : v \in (-1)..MaxRate}

\* rps = float(os.getenv("GITHUB_RPS", "1.0")), 1.0 on ValueError.
ParseRps(env) ==
    IF env.kind = "int" THEN env.val ELSE DefaultRps

NoOwner == "<missing>"

\* One element of the "items" array of the search response. owner = NoOwner
\* stands for an item on which repo_data["owner"]["login"] raises.
ItemValues ==
    {[name |-> "r1", owner |-> "o1"], [name |-> "r2", owner |-> "o2"],
     [name |-> "r2", owner |-> NoOwner]}

WellFormed(item) == item.owner # NoOwner

SeqsUpTo(S, n) == UNION {[1..k -> S] : k \in 0..n}

\* A commit record of the list-commits response. login = "" stands for every
\* falsy case of commit.get("author") and commit["author"].get("login")
\* (author null or missing, login missing, null or empty); name = NoName
\* for a record on which commit["commit"]["author"]["name"] raises.
NoName == "<no name>"
CommitValues == [login : {"", "alice"}, name : {NoName, "", "alice", "Jane"}]

\* What a Python expression evaluates to, where the model needs the
\* difference between None, a dict and a list: hasItems says that a dict has
\* the key "items", and items is that key's value, or the elements of a list.
PyNone == [kind |-> "None", hasItems |-> FALSE, items |-> <<>>]
PyEmptyDict == [kind |-> "dict", hasItems |-> FALSE, items |-> <<>>]
PySearchBody(s) == [kind |-> "dict", hasItems |-> TRUE, items |-> s]
PyList(s) == [kind |-> "list", hasItems |-> FALSE, items |-> s]

VARIABLES
    pc,          \* where get_repositories is
    mcr,         \* the local mcr (0 until it is parsed)
    rps,         \* the local rps (0 until it is parsed)
    semValue,    \* semaphore._value
    response,    \* what the upstream answers to the search request
    items,       \* top_repos_data
    upc,         \* upc[i]: where the task of process_repo(i - 1, items[i]) is
    commits,     \* commits[i]: the local "commits" of unit i
    unitResult,  \* unitResult[i]: the Repository unit i returned
    results,     \* the list get_repositories returns
    requests,    \* number of requests issued through self._session.request
    minInterval, \* RateLimiter._min_interval, in ticks
    lastCall,    \* RateLimiter._last_call, in ticks
    lock,        \* RateLimiter._lock: the task that holds it, 0 if free
    clock,       \* time.monotonic(), in ticks
    wpc,         \* wpc[t]: where task t is in RateLimiter.wait
    wakeAt,      \* wakeAt[t]: the clock value at which the sleep of t ends
    prevCall,    \* the value _last_call had before its latest update
    waits,       \* number of completed calls of RateLimiter.wait
    aggIn,       \* the commit records the aggregation loop runs over
    aggIdx,      \* number of records the loop has been through
    aggCounts,   \* author_counts
    aggRun,      \* which invocation of the aggregation on aggIn is running
    aggFirst,    \* the author list the first invocation produced
    writerPc,    \* where save_data_to_clickhouse is
    repositories,\* its argument: per repository, the number of author entries
    batchSize,   \* its argument batch_size
    tableAt,     \* which of the three insert loops is running
    chunkStart,  \* i of range(0, len(data), chunk_size) in that loop
    inserts      \* the client.execute calls issued so far, in order

runVars == <<pc, mcr, rps, semValue, response, items, upc, commits, unitResult,
             results, requests>>

limiterVars == <<minInterval, lastCall, lock, clock, wpc, wakeAt, prevCall, waits>>

aggVars == <<aggIn, aggIdx, aggCounts, aggRun, aggFirst>>

writerVars == <<writerPc, repositories, batchSize, tableAt, chunkStart, inserts>>

vars == <<runVars, limiterVars, aggVars, writerVars>>

Units == DOMAIN upc

NoResult == [name |-> "", owner |-> "", position |-> 0, authors |-> <<>>]

\* ------------------------------------------------- process_repo: aggregation
\* commit.get("author") and commit["author"].get("login")
HasLogin(c) == c.login # ""

\* The body of the try block reaches the count update without raising.
Extractable(c) == HasLogin(c) \/ c.name # NoName

\* The free-text name preferred to the login.
AuthorOfNameFirst(c) == IF c.name # NoName THEN c.name ELSE c.login

\* author = commit["author"]["login"] if the login is truthy, otherwise
\* commit["commit"]["author"]["name"] (used only where Extractable).
AuthorOf(c) == IF HasLogin(c) THEN c.login ELSE c.name

\* A new entry for every commit, the author already seen or not.
IncrementAppends(counts, a) == Append(counts, [author |-> a, commits_num |-> 1])

\* The count of an author already seen set to 1 instead of incremented.
IncrementResets(counts, a) ==
    IF \E k \in 1..Len(counts) : counts[k].author = a
    THEN [k \in 1..Len(counts) |->
            IF counts[k].author = a
            THEN [author |-> a, commits_num |-> 1]
            ELSE counts[k]]
    ELSE Append(counts, [author |-> a, commits_num |-> 1])

\* author_counts[author] = author_counts.get(author, 0) + 1, the dict being
\* the sequence of its (author, count) entries in insertion order.
Increment(counts, a) ==
    IF \E k \in 1..Len(counts) : counts[k].author = a
    THEN [k \in 1..Len(counts) |->
            IF counts[k].author = a
            THEN [author |-> a, commits_num |-> counts[k].commits_num + 1]
            ELSE counts[k]]
    ELSE Append(counts, [author |-> a, commits_num |-> 1])

\* author_counts surviving from the previous invocation.
AuthorCountsKept(previous) == previous

\* author_counts = {}: a local of process_repo, created on every invocation
\* whatever an earlier invocation left.
NewAuthorCounts(previous) == <<>>

\* [RepositoryAuthorCommitsNum(author=author, commits_num=count)
\*  for author, count in author_counts.items()]
AuthorList(counts) ==
    [k \in 1..Len(counts) |->
        [author |-> counts[k].author, commits_num |-> counts[k].commits_num]]

\* One iteration of "for commit in commits": the try block, and "continue"
\* on any exception.
AggregateStep(counts, c) ==
    IF Extractable(c) THEN Increment(counts, AuthorOf(c)) ELSE counts

\* The whole loop over the records, then the list comprehension over
\* author_counts.items() (one RepositoryAuthorCommitsNum per entry).
RECURSIVE AggregateFrom(_, _)
AggregateFrom(counts, recs) ==
    IF recs = <<>> THEN counts
    ELSE AggregateFrom(AggregateStep(counts, Head(recs)), Tail(recs))

AuthorsCommits(recs) == AggregateFrom(<<>>, recs)

\* The loop failing on every value that is not a list, {} included.
IterationRaisesUnlessList(value) == value.kind # "list"

\* "for commit in commits" on what the fetch returned: None is not iterable
\* (TypeError, outside the try block); a dict yields its keys, strings, on
\* which commit.get raises inside the try block, so each is skipped.
IterationRaises(value) == value.kind = "None"

IteratedRecords(value) == IF value.kind = "list" THEN value.items ELSE <<>>

\* The position left 0-based.
PositionZeroBased(index) == index

\* position=index + 1, index being the 0-based enumerate() index.
Position(index) == index + 1

\* Repository(name=..., owner=..., position=index + 1, ...,
\*            authors_commits_num_today=authors_commits)
MakeRepository(index, item, value) ==
    [name |-> item.name, owner |-> item.owner, position |-> Position(index),
     authors |-> AuthorsCommits(IteratedRecords(value))]

\* ------------------------------------------------------------ _make_request
NoResponse == [status |-> "none", body |-> PyNone]

ErrorResponse == [status |-> "error", body |-> PyNone]

\* What the upstream does with the search request: a transport error, a
\* non-2xx status or a malformed body ("error"), or a body with "items".
SearchResponses ==
    {ErrorResponse}
        \cup {[status |-> "ok", body |-> PySearchBody(s)] :
                 s \in SeqsUpTo(ItemValues, MaxRepos)}

\* The except branch falling through, so that a failure yields None.
MakeRequestNoneOnError(resp) ==
    IF resp.status = "ok" THEN resp.body ELSE PyNone

\* _make_request: response.json() if nothing raised, {} on any exception.
MakeRequest(resp) ==
    IF resp.status = "ok" THEN resp.body ELSE PyEmptyDict

\* _get_top_repositories: data.get("items", [])
GetTopRepositories(resp) ==
    LET data == MakeRequest(resp)
    IN IF data.hasItems THEN data.items ELSE <<>>

\* ------------------------------------------------------ get_repositories
RunInit ==
    /\ pc = "Start"
    /\ mcr = 0
    /\ rps = 0
    /\ semValue = 0
    /\ response = NoResponse
    /\ items = <<>>
    /\ upc = <<>>
    /\ commits = <<>>
    /\ unitResult = <<>>
    /\ results = <<>>
    /\ requests = 0

\* No RateLimiter is constructed yet, and no task is in wait().
LimiterIdle ==
    /\ minInterval = 0
    /\ lastCall = 0
    /\ lock = 0
    /\ clock = 0
    /\ wpc = <<>>
    /\ wakeAt = <<>>
    /\ prevCall = 0
    /\ waits = 0

\* No aggregation loop is running on its own.
AggIdle ==
    /\ aggIn = <<>>
    /\ aggIdx = 0
    /\ aggCounts = <<>>
    /\ aggRun = 1
    /\ aggFirst = <<>>

\* save_data_to_clickhouse has not been called.
WriterIdle ==
    /\ writerPc = "idle"
    /\ repositories = <<>>
    /\ batchSize = DefaultBatchSize
    /\ tableAt = 1
    /\ chunkStart = 0
    /\ inserts = <<>>

Init == RunInit /\ LimiterIdle /\ AggIdle /\ WriterIdle

\* The gate built one permit too wide.
SemaphoreValueOffByOne(m) == m + 1

\* semaphore = asyncio.Semaphore(mcr)
SemaphoreValue(m) == m

\* Semaphore.acquire on a free permit: self._value -= 1.
AcquiredValue(value) == value - 1

\* Semaphore.release: self._value += 1.
ReleasedValue(value) == value + 1

\* A permit kept when the guarded block is left by an exception.
ExitValueLeaksOnRaise(value, raised) == IF raised THEN value ELSE value + 1

\* "async with semaphore" is left, by a return value or by an exception:
\* __aexit__ releases the permit either way.
ExitValue(value, raised) == ReleasedValue(value)

\* Semaphore.acquire returns at once only with a free permit.
CanAcquire(value) == value > 0

\* asyncio.Semaphore(value) raises ValueError for value < 0.
SemaphoreRaises(value) == value < 0

\* ---------------------------------------------------------- RateLimiter
RECURSIVE Gcd(_, _)
Gcd(a, b) == IF b = 0 THEN a ELSE Gcd(b, a % b)

RECURSIVE LcmUpTo(_)
LcmUpTo(n) == IF n <= 1 THEN 1 ELSE (LcmUpTo(n - 1) * n) \div Gcd(LcmUpTo(n - 1), n)

\* The clock counts ticks, so many to a second that 1.0 / rate is a whole
\* number of ticks for every rate of the model.
TicksPerSecond == LcmUpTo(MaxRate)

\* RateLimiter.__init__: 1.0 / rate raises ZeroDivisionError for rate 0.
RateLimiterRaises(rate) == rate = 0

\* self._min_interval = 1.0 / rate
MinInterval(rate) ==
    IF rate > 0 THEN TicksPerSecond \div rate ELSE 0 - (TicksPerSecond \div (0 - rate))

\* self._last_call = 0.0
InitialLastCall == 0

\* Lines 71-98: the configuration is parsed, then the RateLimiter and the
\* Semaphore are constructed; either constructor may raise.
Configure ==
    /\ pc = "Start"
    /\ \E menv \in McrEnvValues, renv \in RpsEnvValues :
          /\ mcr' = ParseMcr(menv)
          /\ rps' = ParseRps(renv)
          /\ IF RateLimiterRaises(ParseRps(renv))
             THEN /\ pc' = "Raised"
                  /\ UNCHANGED <<minInterval, lastCall, semValue>>
             ELSE /\ minInterval' = MinInterval(ParseRps(renv))
                  /\ lastCall' = InitialLastCall
                  /\ IF SemaphoreRaises(SemaphoreValue(ParseMcr(menv)))
                     THEN /\ pc' = "Raised"
                          /\ UNCHANGED semValue
                     ELSE /\ pc' = "FetchingTopRepos"
                          /\ semValue' = SemaphoreValue(ParseMcr(menv))
    /\ UNCHANGED <<response, items, upc, commits, unitResult, results,
                   requests, lock, clock, wpc, wakeAt, prevCall, waits, aggVars,
                   writerVars>>

\* data.get raises AttributeError on a value that is not a dict.
DataGetRaises(data) == data.kind # "dict"

\* Line 100, and line 132: the search request is issued and answered, and one
\* task per item is created for gather.
FetchTopRepos ==
    /\ pc = "FetchingTopRepos"
    /\ \E resp \in SearchResponses :
          /\ response' = resp
          /\ IF DataGetRaises(MakeRequest(resp))
             THEN /\ pc' = "Raised"
                  /\ UNCHANGED <<items, upc, commits, unitResult>>
             ELSE /\ pc' = "FanningOut"
                  /\ items' = GetTopRepositories(resp)
                  /\ upc' = [i \in 1..Len(GetTopRepositories(resp)) |-> "start"]
                  /\ commits' = [i \in 1..Len(GetTopRepositories(resp)) |-> PyNone]
                  /\ unitResult' = [i \in 1..Len(GetTopRepositories(resp)) |-> NoResult]
    /\ requests' = requests + 1
    /\ UNCHANGED <<mcr, rps, semValue, results, limiterVars, aggVars, writerVars>>

\* _get_repository_commits as the source has it: the body is "...", so the
\* coroutine issues no request, never suspends, and returns None.
GetRepositoryCommits == PyNone

\* The commit lists the upstream answers with in a run.
RunCommitLists ==
    {<<>>,
     <<[login |-> "alice", name |-> "Jane"]>>,
     <<[login |-> "", name |-> "Jane"], [login |-> "", name |-> NoName],
       [login |-> "", name |-> "Jane"]>>}

\* A failure of the commits fetch that _make_request does not absorb: an
\* exception raised in _get_repository_commits outside its request.
RaiseResponse == [status |-> "raise", body |-> PyNone]

CommitsResponses ==
    {ErrorResponse, RaiseResponse}
        \cup {[status |-> "ok", body |-> PyList(s)] : s \in RunCommitLists}

\* The fetch raises into process_repo instead of returning.
FetchRaises(resp) == resp.status = "raise"

\* _get_repository_commits through _make_request, as _get_top_repositories
\* does it: one request, and its JSON list, or {} on any failure.
RequestRepositoryCommits(resp) == MakeRequest(resp)

Holders == {u \in Units : upc[u] = "fetching"}

\* gather creates the tasks in the order of its arguments and the event loop
\* runs their first steps in that order, before it resumes get_repositories.
MayStart(u) ==
    /\ pc \in {"FanningOut", "Done"}
    /\ upc[u] = "start"
    /\ \A v \in Units : v < u => upc[v] # "start"

\* Lines 107-130 of unit u once "commits" is bound to value: the loop raises
\* on a value that is not iterable, and the unit returns its Repository
\* otherwise.
UnitFinish(u, value) ==
    /\ commits' = [commits EXCEPT ![u] = value]
    /\ IF IterationRaises(value)
       THEN /\ upc' = [upc EXCEPT ![u] = "raised"]
            /\ UNCHANGED unitResult
       ELSE /\ upc' = [upc EXCEPT ![u] = "returned"]
            /\ unitResult' =
                  [unitResult EXCEPT ![u] = MakeRepository(u - 1, items[u], value)]

\* The task of unit u runs (lines 103-130, with the source's fetch): a
\* malformed item raises; with a free permit the unit takes it, the fetch
\* returns None without suspending, the permit is released and the unit runs
\* to its end; with no free permit the unit suspends inside acquire.
UnitRun(u) ==
    /\ MayStart(u)
    /\ IF ~WellFormed(items[u])
       THEN /\ upc' = [upc EXCEPT ![u] = "raised"]
            /\ UNCHANGED <<semValue, commits, unitResult>>
       ELSE IF CanAcquire(semValue)
       THEN /\ UnitFinish(u, GetRepositoryCommits)
            /\ semValue' = ReleasedValue(AcquiredValue(semValue))
       ELSE /\ upc' = [upc EXCEPT ![u] = "waiting"]
            /\ UNCHANGED <<semValue, commits, unitResult>>
    /\ UNCHANGED <<pc, mcr, rps, response, items, results, requests,
                   limiterVars, aggVars, writerVars>>

\* The task of unit u runs for the first time (lines 103-106, the fetch being
\* a request): a malformed item raises; otherwise "async with semaphore"
\* takes a permit and the unit suspends in the request, or finds none and
\* suspends inside acquire.
UnitStart(u) ==
    /\ MayStart(u)
    /\ IF ~WellFormed(items[u])
       THEN /\ upc' = [upc EXCEPT ![u] = "raised"]
            /\ UNCHANGED <<semValue, requests>>
       ELSE IF CanAcquire(semValue)
       THEN /\ upc' = [upc EXCEPT ![u] = "fetching"]
            /\ semValue' = AcquiredValue(semValue)
            /\ requests' = requests + 1
       ELSE /\ upc' = [upc EXCEPT ![u] = "waiting"]
            /\ UNCHANGED <<semValue, requests>>
    /\ UNCHANGED <<pc, mcr, rps, response, items, commits, unitResult, results,
                   limiterVars, aggVars, writerVars>>

\* A unit suspended inside acquire gets a permit and suspends in the request.
UnitWake(u) ==
    /\ pc \in {"FanningOut", "Done"}
    /\ upc[u] = "waiting"
    /\ CanAcquire(semValue)
    /\ upc' = [upc EXCEPT ![u] = "fetching"]
    /\ semValue' = AcquiredValue(semValue)
    /\ requests' = requests + 1
    /\ UNCHANGED <<pc, mcr, rps, response, items, commits, unitResult, results,
                   limiterVars, aggVars, writerVars>>

\* The request of unit u is answered or the fetch raises (lines 106-130):
\* the "async with" block is left, which releases the permit, and the unit
\* runs to its end without suspending again.
UnitFetchReturn(u) ==
    /\ pc \in {"FanningOut", "Done"}
    /\ upc[u] = "fetching"
    /\ \E resp \in CommitsResponses :
          /\ IF FetchRaises(resp)
             THEN /\ upc' = [upc EXCEPT ![u] = "raised"]
                  /\ UNCHANGED <<commits, unitResult>>
             ELSE UnitFinish(u, RequestRepositoryCommits(resp))
          /\ semValue' = ExitValue(semValue, FetchRaises(resp))
    /\ UNCHANGED <<pc, mcr, rps, response, items, results, requests,
                   limiterVars, aggVars, writerVars>>

\* asyncio.gather(*tasks, return_exceptions=False) with every task returned:
\* the list of the tasks' results in the order of the tasks.
GatherResults == [i \in 1..Len(items) |-> unitResult[i]]

\* gather with return_exceptions=True: one entry per task, raised or not.
ResultsWithExceptions == GatherResults

\* except Exception: results = []
ResultsOnException == <<>>

\* get_repositories, suspended in "await gather", runs again only after every
\* task has run its first step.
GatherMayResume ==
    /\ pc = "FanningOut"
    /\ \A u \in Units : upc[u] # "start"

\* Lines 133-137: gather has every result, and get_repositories returns them.
GatherReturn ==
    /\ GatherMayResume
    /\ \A u \in Units : upc[u] = "returned"
    /\ results' = GatherResults
    /\ pc' = "Done"
    /\ UNCHANGED <<mcr, rps, semValue, response, items, upc, commits, unitResult,
                   requests, limiterVars, aggVars, writerVars>>

\* Lines 133-137: a task raised, gather propagates its exception at once (the
\* other tasks keep running), and get_repositories returns [].
GatherRaise ==
    /\ GatherMayResume
    /\ \E u \in Units : upc[u] = "raised"
    /\ results' = ResultsOnException
    /\ pc' = "Done"
    /\ UNCHANGED <<mcr, rps, semValue, response, items, upc, commits, unitResult,
                   requests, limiterVars, aggVars, writerVars>>

Next ==
    \/ Configure
    \/ FetchTopRepos
    \/ \E u \in Units : UnitRun(u)
    \/ GatherReturn
    \/ GatherRaise

Spec == Init /\ [][Next]_vars

NextFetch ==
    \/ Configure
    \/ FetchTopRepos
    \/ \E u \in Units : UnitStart(u)
    \/ \E u \in Units : UnitWake(u)
    \/ \E u \in Units : UnitFetchReturn(u)
    \/ GatherReturn
    \/ GatherRaise

SpecFetch == Init /\ [][NextFetch]_vars

\* The run of the source under fair scheduling: the event loop runs a task,
\* or resumes get_repositories, whenever one can go on.
SpecLive == Init /\ [][Next]_vars /\ WF_vars(Next)

\* ------------------------------------------- RateLimiter.wait on its own
\* MaxTasks tasks call wait() on one limiter of a rate r > 0, MaxWaits times
\* in all, while the clock runs.
Tasks == 1..MaxTasks

MaxClock == (MaxWaits + 1) * TicksPerSecond

InitLimiter ==
    /\ RunInit
    /\ AggIdle
    /\ WriterIdle
    /\ \E rate \in 1..MaxRate : minInterval = MinInterval(rate)
    /\ lastCall = InitialLastCall
    /\ lock = 0
    /\ clock = 0
    /\ wpc = [t \in Tasks |-> "idle"]
    /\ wakeAt = [t \in Tasks |-> 0]
    /\ prevCall = 0
    /\ waits = 0

\* Time passes.
Tick ==
    /\ clock < MaxClock
    /\ clock' = clock + 1
    /\ UNCHANGED <<runVars, aggVars, writerVars, minInterval, lastCall, lock, wpc, wakeAt,
                   prevCall, waits>>

\* wait() without its lock: every caller goes on at once.
LockAlwaysFree(holder) == TRUE

\* The lock is held by nobody: "async with self._lock" goes on.
LockFree(holder) == holder = 0

\* wait_time = self._min_interval - (now - self._last_call)
WaitTime(now) == minInterval - (now - lastCall)

\* self._last_call = time.monotonic(), and the lock is released on leaving
\* the "async with" block: wait() returns.
RecordCall(t) ==
    /\ prevCall' = lastCall
    /\ lastCall' = clock
    /\ lock' = 0
    /\ waits' = waits + 1
    /\ wpc' = [wpc EXCEPT ![t] = "idle"]
    /\ wakeAt' = [wakeAt EXCEPT ![t] = 0]

\* Lines 88-94 with the lock taken: the elapsed time is checked, and the
\* task sleeps for the rest of the interval or records the call at once.
CheckAndUpdate(t) ==
    IF WaitTime(clock) > 0
    THEN /\ lock' = t
         /\ wpc' = [wpc EXCEPT ![t] = "sleeping"]
         /\ wakeAt' = [wakeAt EXCEPT ![t] = clock + WaitTime(clock)]
         /\ UNCHANGED <<lastCall, prevCall, waits>>
    ELSE RecordCall(t)

CallsBegun == waits + Cardinality({t \in Tasks : wpc[t] # "idle"})

\* Task t calls wait(): it takes the free lock and goes on, or suspends on
\* the lock another task holds.
WaitCall(t) ==
    /\ wpc[t] = "idle"
    /\ CallsBegun < MaxWaits
    /\ IF LockFree(lock)
       THEN CheckAndUpdate(t)
       ELSE /\ wpc' = [wpc EXCEPT ![t] = "blocked"]
            /\ UNCHANGED <<lastCall, lock, wakeAt, prevCall, waits>>
    /\ UNCHANGED <<runVars, aggVars, writerVars, minInterval, clock>>

\* The lock is released and a task suspended on it takes it.
WaitLocked(t) ==
    /\ wpc[t] = "blocked"
    /\ LockFree(lock)
    /\ CheckAndUpdate(t)
    /\ UNCHANGED <<runVars, aggVars, writerVars, minInterval, clock>>

\* asyncio.sleep(wait_time) is over, not before wait_time has passed.
WaitWake(t) ==
    /\ wpc[t] = "sleeping"
    /\ clock >= wakeAt[t]
    /\ RecordCall(t)
    /\ UNCHANGED <<runVars, aggVars, writerVars, minInterval, clock>>

NextLimiter ==
    \/ Tick
    \/ \E t \in Tasks : WaitCall(t)
    \/ \E t \in Tasks : WaitLocked(t)
    \/ \E t \in Tasks : WaitWake(t)

SpecLimiter == InitLimiter /\ [][NextLimiter]_vars

\* ---------------------------------------- the aggregation loop on its own
\* The loop of lines 107-116 over any list of commit records.
InitAgg ==
    /\ RunInit
    /\ LimiterIdle
    /\ WriterIdle
    /\ aggIn \in SeqsUpTo(CommitValues, MaxCommits)
    /\ aggIdx = 0
    /\ aggCounts = NewAuthorCounts(<<>>)
    /\ aggRun = 1
    /\ aggFirst = <<>>

\* One iteration of the loop.
AggStep ==
    /\ aggIdx < Len(aggIn)
    /\ aggCounts' = AggregateStep(aggCounts, aggIn[aggIdx + 1])
    /\ aggIdx' = aggIdx + 1
    /\ UNCHANGED <<runVars, limiterVars, writerVars, aggIn, aggRun, aggFirst>>

\* The first invocation is over: its author list (lines 117-120) is kept and
\* the same commit list is aggregated again, from line 107.
AggAgain ==
    /\ aggRun = 1
    /\ aggIdx = Len(aggIn)
    /\ aggFirst' = AuthorList(aggCounts)
    /\ aggCounts' = NewAuthorCounts(aggCounts)
    /\ aggIdx' = 0
    /\ aggRun' = 2
    /\ UNCHANGED <<runVars, limiterVars, writerVars, aggIn>>

NextAgg == AggStep \/ AggAgain

SpecAgg == InitAgg /\ [][NextAgg]_vars

\* ------------------------------------------- save_data_to_clickhouse
\* A row is the table it goes to, the repository it was built from and, in
\* the commits table, which author entry of that repository.
ReposRows(repos) ==
    [i \in 1..Len(repos) |-> [table |-> "repositories", repo |-> i, entry |-> 0]]

PositionsRows(repos) ==
    [i \in 1..Len(repos) |->
        [table |-> "repositories_positions", repo |-> i, entry |-> 0]]

\* for repo in repositories: for author_commit in
\* repo.authors_commits_num_today: commits_rows.append(...)
RECURSIVE CommitsRowsFrom(_, _)
CommitsRowsFrom(repos, i) ==
    IF i > Len(repos) THEN <<>>
    ELSE [k \in 1..repos[i] |->
            [table |-> "repositories_authors_commits", repo |-> i, entry |-> k]]
         \o CommitsRowsFrom(repos, i + 1)

CommitsRows(repos) == CommitsRowsFrom(repos, 1)

\* The commits loop before the positions loop.
TableOrderCommitsFirst ==
    <<"repositories", "repositories_authors_commits", "repositories_positions">>

\* The three insert loops in the order the function runs them.
TableOrder ==
    <<"repositories", "repositories_positions", "repositories_authors_commits">>

\* The row list the loop over a table chunks.
RowsOf(table, repos) ==
    CASE table = "repositories" -> ReposRows(repos)
      [] table = "repositories_positions" -> PositionsRows(repos)
      [] OTHER -> CommitsRows(repos)

\* range(0, len(data), chunk_size) raises ValueError for a step of zero.
RangeRaises(step) == step = 0

\* i is a member of range(0, n, step): a negative step gives an empty range.
InRange(i, n, step) == step > 0 /\ i < n

\* The slice without its last row.
SliceDropsLast(data, i, j) ==
    SubSeq(data, i + 1, (IF j < Len(data) THEN j ELSE Len(data)) - 1)

\* data[i: j] for 0 <= i <= j.
Slice(data, i, j) == SubSeq(data, i + 1, IF j < Len(data) THEN j ELSE Len(data))

\* The arguments of save_data_to_clickhouse.
BatchSizes == -1..MaxBatch

InitWriter ==
    /\ RunInit
    /\ LimiterIdle
    /\ AggIdle
    /\ writerPc = "loop"
    /\ repositories \in SeqsUpTo(0..MaxAuthors, MaxWriteRepos)
    /\ batchSize \in BatchSizes
    /\ tableAt = 1
    /\ chunkStart = 0
    /\ inserts = <<>>

CurrentRows == RowsOf(TableOrder[tableAt], repositories)

\* The for statement asks chunked() for its first chunk and range() raises.
ChunkedRaise ==
    /\ writerPc = "loop"
    /\ RangeRaises(batchSize)
    /\ writerPc' = "raised"
    /\ UNCHANGED <<runVars, limiterVars, aggVars, repositories, batchSize,
                   tableAt, chunkStart, inserts>>

\* The next chunk is yielded and client.execute(query, batch) is called.
ExecuteIssue ==
    /\ writerPc = "loop"
    /\ ~RangeRaises(batchSize)
    /\ InRange(chunkStart, Len(CurrentRows), batchSize)
    /\ inserts' = Append(inserts,
                      [table |-> TableOrder[tableAt],
                       rows |-> Slice(CurrentRows, chunkStart, chunkStart + batchSize),
                       status |-> "pending"])
    /\ writerPc' = "awaiting"
    /\ UNCHANGED <<runVars, limiterVars, aggVars, repositories, batchSize,
                   tableAt, chunkStart>>

\* An exception of client.execute caught and the loop carried on.
AfterExecuteSwallowsError(ok) == "loop"

\* No try statement around await client.execute: its exception leaves the
\* function.
AfterExecute(ok) == IF ok THEN "loop" ELSE "raised"

\* await client.execute(...) returns or raises.
ExecuteReturn ==
    /\ writerPc = "awaiting"
    /\ \E ok \in BOOLEAN :
          /\ inserts' = [inserts EXCEPT ![Len(inserts)].status =
                                        IF ok THEN "ok" ELSE "failed"]
          /\ writerPc' = AfterExecute(ok)
    /\ chunkStart' = chunkStart + batchSize
    /\ UNCHANGED <<runVars, limiterVars, aggVars, repositories, batchSize,
                   tableAt>>

\* The range of a loop is exhausted: the next loop starts, or the function
\* returns after the third.
TableDone ==
    /\ writerPc = "loop"
    /\ ~RangeRaises(batchSize)
    /\ ~InRange(chunkStart, Len(CurrentRows), batchSize)
    /\ IF tableAt < Len(TableOrder)
       THEN /\ tableAt' = tableAt + 1
            /\ chunkStart' = 0
            /\ UNCHANGED writerPc
       ELSE /\ writerPc' = "done"
            /\ UNCHANGED <<tableAt, chunkStart>>
    /\ UNCHANGED <<runVars, limiterVars, aggVars, repositories, batchSize,
                   inserts>>

NextWriter == ChunkedRaise \/ ExecuteIssue \/ ExecuteReturn \/ TableDone

SpecWriter == InitWriter /\ [][NextWriter]_vars

\* ------------------------------------------------------------------ claims

C3_EveryRequestWaited == requests <= waits

C5_NoPartialResult ==
    pc = "Done" =>
        /\ (\E u \in Units : upc[u] = "raised") => results = <<>>
        /\ (\A u \in Units : upc[u] # "raised") => Len(results) = Len(items)
        /\ Len(results) \in {0, Len(items)}

\* A run over two items or more returned [] after a unit raised.
C5_Witness ==
    /\ pc = "Done"
    /\ Len(items) >= 2
    /\ \E u \in Units : upc[u] = "raised"
    /\ results = <<>>

C8_EmptyTopRepos ==
    (\/ response.status = "error"
     \/ response.status = "ok" /\ response.body.items = <<>>)
        => /\ pc \in {"FanningOut", "Done"}
           /\ Units = {}
           /\ requests = 1
           /\ pc = "FanningOut" => ENABLED GatherReturn
           /\ pc = "Done" => results = <<>>

\* The search call failed and the run returned [].
C8_Witness ==
    /\ response.status = "error"
    /\ pc = "Done"
    /\ results = <<>>

\* C2: for a rate r > 0 and any number of concurrent callers, two successive
\* completions of wait() are at least 1/r apart, and the lock is held across
\* the check, the sleep and the update: the one task between its check and
\* its update holds the lock and computed its wait from the current
\* _last_call.
C2_MinSpacing ==
    /\ waits >= 2 => lastCall - prevCall >= minInterval
    /\ \A t \in DOMAIN wpc :
          wpc[t] = "sleeping" =>
              /\ lock = t
              /\ wakeAt[t] = lastCall + minInterval
    /\ Cardinality({t \in DOMAIN wpc : wpc[t] = "sleeping"}) <= 1

\* Two calls completed exactly one interval apart while another caller is
\* suspended on the lock.
C2_Witness ==
    /\ waits >= 2
    /\ lastCall - prevCall = minInterval
    /\ \E t \in DOMAIN wpc : wpc[t] = "blocked"

RECURSIVE SumCounts(_)
SumCounts(counts) ==
    IF counts = <<>> THEN 0 ELSE Head(counts).commits_num + SumCounts(Tail(counts))

\* C9: the sum of commits_num over the author entries equals the number of
\* records gone through that have a non-empty login or else a
\* commit.author.name; the other records add nothing.
C9_SumEqualsExtractable ==
    SumCounts(aggCounts) =
        Cardinality({i \in 1..aggIdx : aggIn[i].login # "" \/ aggIn[i].name # NoName})

\* A loop over three records ended: one was skipped and the two others are
\* of one author.
C9_Witness ==
    /\ Len(aggIn) = 3
    /\ aggIdx = 3
    /\ \E i \in 1..3 : aggIn[i].login = "" /\ aggIn[i].name = NoName
    /\ Len(aggCounts) = 1
    /\ aggCounts[1].commits_num = 2

CountOf(counts, a) ==
    LET hits == {k \in 1..Len(counts) : counts[k].author = a}
    IN IF hits = {} THEN 0 ELSE counts[CHOOSE k \in hits : TRUE].commits_num

\* C10: each record counts for its login when that is present and non-empty,
\* otherwise for its commit.author.name, and a record with neither is
\* skipped while the records after it are still counted.
C10_Attribution ==
    /\ \A a \in {"", "alice", "Jane"} :
          CountOf(aggCounts, a) =
              Cardinality({i \in 1..aggIdx :
                  \/ aggIn[i].login # "" /\ aggIn[i].login = a
                  \/ aggIn[i].login = "" /\ aggIn[i].name # NoName /\ aggIn[i].name = a})
    /\ \A k \in 1..Len(aggCounts) : aggCounts[k].author \in {"", "alice", "Jane"}

\* A loop ended that skipped its first record, counted the second for its
\* login although it has a name, and the third for its name.
C10_Witness ==
    /\ Len(aggIn) = 3
    /\ aggIdx = 3
    /\ aggIn[1] = [login |-> "", name |-> NoName]
    /\ aggIn[2] = [login |-> "alice", name |-> "Jane"]
    /\ aggIn[3] = [login |-> "", name |-> "Jane"]
    /\ CountOf(aggCounts, "alice") = 1
    /\ CountOf(aggCounts, "Jane") = 1

\* C16: in every state of the aggregation loop, over every sequence of commit
\* records, no two entries of the author list have the same author and every
\* entry's commits_num is at least 1.
C16_OneEntryPerAuthor ==
    /\ \A j, k \in 1..Len(aggCounts) :
          aggCounts[j].author = aggCounts[k].author => j = k
    /\ \A k \in 1..Len(aggCounts) : aggCounts[k].commits_num >= 1

\* The loop is over, two authors were seen and one of them more than once.
C16_Witness ==
    /\ aggIdx = Len(aggIn)
    /\ Len(aggCounts) = 2
    /\ \E k \in 1..Len(aggCounts) : aggCounts[k].commits_num >= 2

\* C17: aggregating the same commit list a second time gives the same set of
\* (author, commits_num) entries as the first time.
C17_SameEntriesTwice ==
    (aggRun = 2 /\ aggIdx = Len(aggIn)) =>
        {AuthorList(aggCounts)[k] : k \in 1..Len(aggCounts)} =
            {aggFirst[k] : k \in 1..Len(aggFirst)}

\* The second invocation is over and its list has two authors, one of them
\* with two commits.
C17_Witness ==
    /\ aggRun = 2
    /\ aggIdx = Len(aggIn)
    /\ Len(aggFirst) = 2
    /\ \E k \in 1..Len(aggCounts) : aggCounts[k].commits_num = 2

\* The inserts issued into one table, in issue order.
InsertsInto(t) == SelectSeq(inserts, LAMBDA e : e.table = t)

\* The batches of a sequence of inserts, concatenated.
RECURSIVE ConcatRows(_)
ConcatRows(ins) ==
    IF ins = <<>> THEN <<>> ELSE Head(ins).rows \o ConcatRows(Tail(ins))

CeilDiv(n, d) == (n + d - 1) \div d

TableNames ==
    {"repositories", "repositories_positions", "repositories_authors_commits"}

\* C11: when save_data_to_clickhouse has returned after a call with
\* chunkSize >= 1, each table got exactly ceil(n / chunkSize) inserts, each
\* batch non-empty and of at most chunkSize rows, every batch but the last of
\* exactly chunkSize rows, and the batches concatenated in issue order are the
\* table's row list.
C11_ChunksCoverRows ==
    (writerPc = "done" /\ batchSize >= 1) =>
        \A t \in TableNames :
            LET ins == InsertsInto(t)
                data == RowsOf(t, repositories)
            IN  /\ Len(ins) = CeilDiv(Len(data), batchSize)
                /\ \A k \in 1..Len(ins) :
                      /\ Len(ins[k].rows) >= 1
                      /\ Len(ins[k].rows) <= batchSize
                      /\ k < Len(ins) => Len(ins[k].rows) = batchSize
                /\ ConcatRows(ins) = data

\* Five commit rows written with chunkSize 2 in batches of 2, 2 and 1, and
\* three rows in each of the other tables in batches of 2 and 1.
C11_Witness ==
    /\ writerPc = "done"
    /\ batchSize = 2
    /\ Len(CommitsRows(repositories)) = 5
    /\ Len(InsertsInto("repositories_authors_commits")) = 3
    /\ Len(InsertsInto("repositories_authors_commits")[3].rows) = 1
    /\ Len(InsertsInto("repositories")) = 2

TableRank(t) ==
    CASE t = "repositories" -> 1
      [] t = "repositories_positions" -> 2
      [] OTHER -> 3

\* C12: in every state, the inserts issued so far are in table order
\* (repositories, then repositories_positions, then
\* repositories_authors_commits) and only the last issued can be still in
\* progress.
C12_TableOrderSequential ==
    /\ \A j, k \in 1..Len(inserts) :
          j < k => TableRank(inserts[j].table) <= TableRank(inserts[k].table)
    /\ \A k \in 1..Len(inserts) :
          inserts[k].status = "pending" => k = Len(inserts)

\* The function has returned after two or more inserts into each table.
C12_Witness ==
    /\ writerPc = "done"
    /\ \A t \in TableNames : Len(InsertsInto(t)) >= 2

AllRows ==
    ReposRows(repositories) \o PositionsRows(repositories) \o CommitsRows(repositories)

\* C13 as stated: whenever save_data_to_clickhouse has stopped, with a failed
\* insert or without, every chunk of every table has been attempted.
C13_LaterChunksAttempted ==
    (writerPc \in {"done", "raised"} /\ batchSize >= 1) =>
        Len(ConcatRows(inserts)) = Len(AllRows)

\* C13 amended: a failed insert is the last insert issued and ends the
\* function with its exception; the inserts issued before it all succeeded,
\* stay issued, and carry, with the failed one, a prefix of the rows in table
\* order.
C13_FailureEndsWriting ==
    \A k \in 1..Len(inserts) :
        inserts[k].status = "failed" =>
            /\ k = Len(inserts)
            /\ writerPc = "raised"
            /\ \A j \in 1..(k - 1) : inserts[j].status = "ok"
            /\ ConcatRows(inserts) = SubSeq(AllRows, 1, Len(ConcatRows(inserts)))

\* The second insert failed after the first succeeded, and rows of all three
\* tables were never sent.
C13_Witness ==
    /\ writerPc = "raised"
    /\ Len(inserts) = 2
    /\ inserts[1].status = "ok"
    /\ inserts[2].status = "failed"
    /\ inserts[2].table = "repositories"
    /\ Len(ConcatRows(inserts)) < Len(ReposRows(repositories))
    /\ Len(CommitsRows(repositories)) >= 1

\* C14: when the configured rate parses to a number <= 0, the RateLimiter is
\* constructed with the default rate: construction raises nothing and the
\* minimum interval is that of 1.0 call per second.
C14_NonPositiveRateFallsBack ==
    (pc # "Start" /\ rps <= 0) =>
        /\ pc = "Raised" => SemaphoreRaises(SemaphoreValue(mcr))
        /\ pc # "Raised" => minInterval = TicksPerSecond \div DefaultRps

\* C15: get_repositories returns only after every launched unit has finished:
\* once it has returned, no unit is waiting to run, suspended on the
\* semaphore or inside the guarded section.
C15_ReturnsAfterAllUnits ==
    pc = "Done" => \A u \in Units : upc[u] \in {"returned", "raised"}

C19_RunReturns ==
    /\ (pc = "FanningOut") ~> (pc = "Done")
    /\ \A u \in 1..MaxRepos :
          (u \in Units /\ upc[u] = "waiting") ~> ~(u \in Units /\ upc[u] = "waiting")

====
